---- MODULE Spec2Model ----
(***************************************************************************)
(* Model of the chat session reconciliation logic of the HR assistant     *)
(* frontend: the Chat component (session list, active session, visible    *)
(* messages) together with the ChatWindow component that tracks the       *)
(* temporary user message of a send in flight, and the remote store they  *)
(* talk to through chatAPI.                                                *)
(*                                                                         *)
(* Every handler is a closure over the state of the render in which it    *)
(* was created.  An asynchronous handler is split at its awaits; the part *)
(* that runs after an await still reads the state captured when the       *)
(* handler was invoked, so each task in flight carries that capture.  One *)
(* action is one handler segment followed by the re-render and the        *)
(* effects it triggers.                                                    *)
(***************************************************************************)
EXTENDS Integers, Sequences, FiniteSets, TLC

\* ------------------------------------------------------------------ bounds
MaxChats   == 3   \* chat ids the remote store can hand out
MaxSends   == 2   \* send attempts in one behaviour
MaxDeletes == 2   \* delete attempts in one behaviour
MaxClears  == 1   \* clear-all attempts in one behaviour
MaxOps     == 2   \* send, delete and clear-all attempts together
MaxTasks   == 2   \* delete / clear / reload calls in flight together
MaxClock   == 2   \* last value of Date.now()
MaxRawLen  == 2   \* records in a message list the remote store returns
MaxTempPrefix == 2 \* temp- prefixes of an id the remote store returns
OldDays    == 3   \* days before the mount on which stored chats were updated
DaysPerYear == 2  \* days after which a month-and-day label repeats

\* ------------------------------------------------------- message contents
\* A content string is a sequence of tokens: "a" a printable character,
\* "_" a whitespace character, "M" the literal '(sending...)'.
Marker == "M"
Blank  == "_"

\* What the user may type and what the assistant may answer.
UserInputs == { <<"a">>, <<"M">> }
Replies    == { <<"b">>, <<>> }
ErrorText  == <<"e">>

RECURSIVE replaceMarker(_)
\* String.prototype.replace('(sending...)', ''): first occurrence only.
replaceMarker(c) ==
  IF c = <<>> THEN <<>>
  ELSE IF Head(c) = Marker THEN Tail(c)
  ELSE <<Head(c)>> \o replaceMarker(Tail(c))

RECURSIVE trimStart(_)
trimStart(c) ==
  IF c # <<>> /\ Head(c) = Blank THEN trimStart(Tail(c)) ELSE c

RECURSIVE trimEnd(_)
trimEnd(c) ==
  IF c # <<>> /\ c[Len(c)] = Blank THEN trimEnd(SubSeq(c, 1, Len(c) - 1)) ELSE c

\* String.prototype.trim()
trim(c) == trimEnd(trimStart(c))

\* String.prototype.includes('(sending...)')
includesMarker(c) == \E i \in 1..Len(c) : c[i] = Marker

\* ------------------------------------------------------------ identifiers
\* A message id `temp-...temp-<t>-<k>` is [pre, t, k]; k = "none" is a
\* record without an id field.
MsgId(pre, t, k) == [pre |-> pre, t |-> t, k |-> k]
NoMsgId == MsgId(0, 0, "none")

\* id.replace(/^temp-/, '')
stripTemp(id) == IF id.pre > 0 THEN [id EXCEPT !.pre = @ - 1] ELSE id

\* id.startsWith('temp-')
startsWithTemp(id) == id.pre > 0

\* A chat id: assigned by the remote store ("srv"), invented locally as
\* `chat-<t>` ("chat-") or as `<t>` ("bare"), or absent ("null").
ChatId(k, n) == [k |-> k, n |-> n]
NullId == ChatId("null", 0)
SrvId(n) == ChatId("srv", n)

\* --------------------------------------------------------------- messages
Msg(id, role, content, ts, isTemp) ==
  [id |-> id, role |-> role, content |-> content, timestamp |-> ts, isTemp |-> isTemp]

Ids(msgs) == { msgs[i].id : i \in 1..Len(msgs) }

\* cleanMessages of Chat.jsx, evaluated at Date.now() = t.
cleanValid(msg) == msg.content # <<>> /\ msg.role # ""

cleanOne(msg, t) ==
  [msg EXCEPT !.isTemp = "false",
              !.id = IF msg.id.k = "none" THEN MsgId(0, t, msg.role) ELSE stripTemp(msg.id),
              !.content = trim(replaceMarker(msg.content))]

cleanMessages(msgs, t) ==
  LET kept == SelectSeq(msgs, cleanValid)
  IN  [i \in 1..Len(kept) |-> cleanOne(kept[i], t)]

\* ------------------------------------------------------------------ chats
Chat(id, msgs, created, updated) ==
  [_id |-> id, messages |-> msgs, created_at |-> created, updated_at |-> updated]

\* currentChat and tempUserMessage are <<>> for null and <<x>> otherwise.
IdOf(cc) == IF cc = <<>> THEN NullId ELSE cc[1]._id


\* Array.prototype.find(c => c._id === id): <<>> when absent.
findChat(hist, id) ==
  LET hits == SelectSeq(hist, LAMBDA c : c._id = id)
  IN  IF hits = <<>> THEN <<>> ELSE <<hits[1]>>

\* new Date(b.updated_at || b.created_at)
sortKey(c) == IF c.updated_at # 0 THEN c.updated_at ELSE c.created_at

RECURSIVE insertDesc(_, _)
insertDesc(s, c) ==
  IF s = <<>> THEN <<c>>
  ELSE IF sortKey(Head(s)) >= sortKey(c) THEN <<Head(s)>> \o insertDesc(Tail(s), c)
  ELSE <<c>> \o s

RECURSIVE sortHistory(_)
\* history.sort((a, b) => date(b) - date(a)): stable, newest first.
sortHistory(h) ==
  IF h = <<>> THEN <<>>
  ELSE insertDesc(sortHistory(SubSeq(h, 1, Len(h) - 1)), h[Len(h)])

\* cleanedHistory of loadChatHistory.
cleanHistory(data, t) ==
  LET sorted == sortHistory(data)
  IN  [i \in 1..Len(sorted) |-> [sorted[i] EXCEPT !.messages = cleanMessages(@, t)]]

\* displayMessages of ChatWindow.
displayVisible(msg) ==
  /\ msg.isTemp # "true"
  /\ ~startsWithTemp(msg.id)
  /\ msg.content # <<>>
  /\ ~includesMarker(msg.content)

\* displayMessages that also shows the pending message as the bubble
\* annotated '(sending...)'.
displayMessages_pendingTwice(msgs, temp) == SelectSeq(msgs, displayVisible) \o temp \o temp

displayMessages(msgs, temp) == SelectSeq(msgs, displayVisible) \o temp

\* ---------------------------------------------------------------- Sidebar
\* The label formatDate gives a timestamp on the day `today`; a clock value
\* is read as a day.  The month-and-day label carries no year.
dateLabel(kind, d) == [kind |-> kind, d |-> d]

formatDate(t, today) ==
  IF t = 0 THEN dateLabel("Recent Chats", 0)
  ELSE IF t = today THEN dateLabel("Today", 0)
  ELSE IF t = today - 1 THEN dateLabel("Yesterday", 0)
  ELSE dateLabel("MonthDay", t % DaysPerYear)

\* Object.keys(groups) of groupChatsByDate: the labels of the sorted chats
\* in the order of their first insertion.
RECURSIVE groupKeys(_, _)
groupKeys(sorted, today) ==
  IF sorted = <<>> THEN <<>>
  ELSE LET keys == groupKeys(SubSeq(sorted, 1, Len(sorted) - 1), today)
           k == formatDate(sortKey(sorted[Len(sorted)]), today)
       IN  IF \E i \in 1..Len(keys) : keys[i] = k THEN keys ELSE Append(keys, k)

\* groups[date] of groupChatsByDate.
groupOf(sorted, today, k) ==
  SelectSeq(sorted, LAMBDA c : formatDate(sortKey(c), today) = k)

RECURSIVE renderGroups(_, _, _)
renderGroups(keys, sorted, today) ==
  IF keys = <<>> THEN <<>>
  ELSE groupOf(sorted, today, Head(keys)) \o renderGroups(Tail(keys), sorted, today)

\* The chats in the order the sidebar shows them: group after group.
sidebarChats(hist, today) ==
  LET sorted == sortHistory(hist)
  IN  renderGroups(groupKeys(sorted, today), sorted, today)

\* ------------------------------------------------------------------ state
VARIABLES
  chatHistory,       \* Chat: useState([])
  currentChat,       \* Chat: useState(null)
  messages,          \* Chat: useState([])
  isNewChat,         \* Chat: useState(true)
  isLoadingHistory,  \* Chat: useState(false)
  loading,           \* ChatWindow: useState(false)
  tempUserMessage,   \* ChatWindow: useState(null)
  send,              \* the chatAPI.sendMessage call in flight and its closure
  tasks,             \* deleteChat / clearAllChats / getHistory calls in flight
  srv,               \* the remote store
  now,               \* Date.now()
  nSends, nDeletes, nClears,
  showDeleteConfirm, \* Sidebar: useState(false), the clear-all dialog is open
  last               \* the handler segment of the client that ran last

vars == <<chatHistory, currentChat, messages, isNewChat, isLoadingHistory,
          loading, tempUserMessage, send, tasks, srv, now,
          nSends, nDeletes, nClears, showDeleteConfirm, last>>

chatVars == <<chatHistory, currentChat, messages, isNewChat, isLoadingHistory>>
windowVars == <<loading, tempUserMessage>>
counters == <<nSends, nDeletes, nClears>>

activeSessionId == IdOf(currentChat)
visibleMessages == displayMessages(messages, tempUserMessage)

Last(op, ok, origin, target, ids, appended) ==
  [op |-> op, ok |-> ok, before |-> activeSessionId, sessions |-> Len(chatHistory),
   origin |-> origin, target |-> target, ids |-> ids, appended |-> appended]

IdleSend ==
  [phase |-> "idle", userMessage |-> <<>>, chatId |-> NullId, cc |-> <<>>,
   nc |-> TRUE, ms |-> <<>>, chat_id |-> NullId, response |-> <<>>]

Task(kind, phase, cc, target, thenClear, data) ==
  [kind |-> kind, phase |-> phase, cc |-> cc, target |-> target,
   thenClear |-> thenClear, data |-> data, appended |-> {}]

RemoveAt(s, i) == SubSeq(s, 1, i - 1) \o SubSeq(s, i + 1, Len(s))

\* --------------------------------------------------------- remote store
FreeSlot == [state |-> "free", messages |-> <<>>, created_at |-> 0, updated_at |-> 0]

\* A message record as the remote store keeps it: role, content and
\* timestamp, without an id or a temp flag.
SrvMsg(role, content, t) == Msg(NoMsgId, role, content, t, "undefined")

\* The records a processed query adds to chat n.
srvAppend(slot, content, reply, t) ==
  [slot EXCEPT
     !.state = "live",
     !.messages = @ \o << SrvMsg("user", content, t),
                          SrvMsg("assistant", reply, t) >>,
     !.created_at = IF slot.state = "free" THEN t ELSE @,
     !.updated_at = t]

\* GET /chat/history: the live chats.
RECURSIVE srvHistoryUpTo(_)
srvHistoryUpTo(n) ==
  IF n = 0 THEN <<>>
  ELSE srvHistoryUpTo(n - 1) \o
       (IF srv[n].state = "live"
        THEN << Chat(SrvId(n), srv[n].messages, srv[n].created_at, srv[n].updated_at) >>
        ELSE <<>>)

srvHistory == srvHistoryUpTo(MaxChats)

\* --------------------------------------------------- effects after render
\* Chat's effect on [currentChat]: runs when setCurrentChat installed a new
\* object (changed); md and nd are the values the handler set directly.
effectMessages(changed, cc, md, t) ==
  IF changed
  THEN IF cc # <<>> THEN cleanMessages(cc[1].messages, t) ELSE <<>>
  ELSE md

\* The effect without its setIsNewChat(false).
effectIsNewChat_noReset(changed, cc, nd) == nd

effectIsNewChat(changed, cc, nd) ==
  IF changed /\ cc # <<>> THEN FALSE ELSE nd

\* ChatWindow's effect on [currentChat, isLoadingHistory].
effectTemp(changed, loadingBefore, loadingAfter, temp) ==
  IF (changed \/ loadingBefore # loadingAfter) /\ ~loadingAfter THEN <<>> ELSE temp

\* The state of Chat and ChatWindow after the first render and the mount
\* effect: loadChatHistory is in flight.
InitLocal ==
  /\ chatHistory = <<>>
  /\ currentChat = <<>>
  /\ messages = <<>>
  /\ isNewChat = TRUE
  /\ isLoadingHistory = TRUE
  /\ loading = FALSE
  /\ tempUserMessage = <<>>
  /\ send = IdleSend
  /\ tasks = << Task("reload", "issued", NullId, NullId, FALSE, <<>>) >>
  /\ now = 1
  /\ nSends = 0 /\ nDeletes = 0 /\ nClears = 0
  /\ showDeleteConfirm = FALSE
  /\ last = [op |-> "mount", ok |-> TRUE, before |-> NullId, sessions |-> 0,
             origin |-> NullId, target |-> NullId, ids |-> {}, appended |-> {}]

\* A remote store that holds one chat with the message records msgs.
storeWith(msgs) ==
  [n \in 1..MaxChats |->
     IF n = 1
     THEN [state |-> "live", messages |-> msgs, created_at |-> 1, updated_at |-> 1]
     ELSE FreeSlot]

Init ==
  /\ InitLocal
  /\ srv = storeWith(<< SrvMsg("user", <<"a">>, 1), SrvMsg("assistant", <<"b">>, 1) >>)

\* ------------------------------------------------------ handleNewMessage
stripNew(msg) == [msg EXCEPT !.content = trim(replaceMarker(@))]

cleanNewMessages(newMsgs) ==
  SelectSeq([i \in 1..Len(newMsgs) |-> stripNew(newMsgs[i])], LAMBDA m : m.content # <<>>)

uniqueNewMessages(cleanNew, ms) ==
  SelectSeq(cleanNew, LAMBDA m : m.id \notin Ids(ms))

\* chatId || newMessage.chat_id || `chat-${Date.now()}`
newChatId(chatId, chat_id, t) ==
  IF chatId # NullId THEN chatId
  ELSE IF chat_id # NullId THEN chat_id
  ELSE ChatId("chat-", t)

\* prev.map(chat => chat._id === id ? updatedChat : chat)
replaceChat(hist, id, updatedChat) ==
  [i \in 1..Len(hist) |-> IF hist[i]._id = id THEN updatedChat ELSE hist[i]]

\* handleNewMessage(newMessage, chatId) as created by the render whose
\* state was currentChat = cc, isNewChat = nc, messages = ms; it runs at
\* Date.now() = t against the chatHistory of the time it runs.
handleNewMessage(newMsgs, chatId, chat_id, cc, nc, ms, t) ==
  LET cleanNew == cleanNewMessages(newMsgs)
      uniqueNew == uniqueNewMessages(cleanNew, ms)
      updatedChat == [cc[1] EXCEPT !.messages = ms \o uniqueNew, !.updated_at = t]
      newChat == Chat(newChatId(chatId, chat_id, t), cleanNew, t, t)
      return == [branch |-> "return", chatHistory |-> chatHistory,
                 currentChat |-> currentChat, messages |-> messages,
                 isNewChat |-> isNewChat, added |-> <<>>]
  IN  IF newMsgs = <<>> \/ cleanNew = <<>> THEN return
      ELSE IF cc # <<>> /\ ~nc
      THEN IF uniqueNew = <<>> THEN return
           ELSE [branch |-> "merge",
                 chatHistory |-> replaceChat(chatHistory, cc[1]._id, updatedChat),
                 currentChat |-> <<updatedChat>>,
                 messages |-> ms \o uniqueNew,
                 isNewChat |-> isNewChat,
                 added |-> uniqueNew]
      ELSE [branch |-> "create",
            chatHistory |-> <<newChat>> \o chatHistory,
            currentChat |-> <<newChat>>,
            messages |-> cleanNew,
            isNewChat |-> FALSE,
            added |-> cleanNew]

\* ------------------------------------------------- ChatWindow.sendMessage
\* The temporary user message built when the form is submitted.
tempMessage(content, t) == Msg(MsgId(1, t, "user"), "user", trim(content), t, "true")

\* persistentUserMessage that keeps the id of the temporary message.
persistentUserMessage_keepsTempId(userMessage, t) ==
  [userMessage EXCEPT !.isTemp = "undefined"]

\* persistentUserMessage: the temp prefix and the temp flag removed.
persistentUserMessage(userMessage, t) ==
  [userMessage EXCEPT !.id = MsgId(0, t, "user"), !.isTemp = "undefined"]

assistantMessage(response, t) ==
  Msg(MsgId(0, t, "assistant"), "assistant", response, t, "undefined")

errorMessage(t) == Msg(MsgId(0, t, "error"), "assistant", ErrorText, t, "undefined")

\* currentChat?._id || `${Date.now()}`
errorChatId(cc, t) == IF IdOf(cc) # NullId THEN IdOf(cc) ELSE ChatId("bare", t)

\* Records, for every reload in flight, what a send completion stored.
noteAppended(ts, chatId, added) ==
  [i \in 1..Len(ts) |->
     IF ts[i].kind = "reload"
     THEN [ts[i] EXCEPT !.appended = @ \cup
             { [chat |-> chatId, role |-> added[j].role, content |-> added[j].content]
               : j \in 1..Len(added) }]
     ELSE ts[i]]

\* sendMessage that does not call setLoading(true).
SendMessage_noLoadingFlag(content) ==
  /\ trim(content) # <<>>
  /\ ~loading
  /\ ~isLoadingHistory           \* the textarea and the button are disabled
  /\ nSends < MaxSends
  /\ nSends + nDeletes + nClears < MaxOps
  /\ tempUserMessage' = << tempMessage(content, now) >>
  /\ loading' = loading
  /\ send' = [phase |-> "issued", userMessage |-> << tempMessage(content, now) >>,
              chatId |-> IdOf(currentChat), cc |-> currentChat, nc |-> isNewChat,
              ms |-> messages, chat_id |-> NullId, response |-> <<>>]
  /\ nSends' = nSends + 1
  /\ last' = Last("SendMessage", TRUE, IdOf(currentChat), NullId, {}, {})
  /\ UNCHANGED <<chatVars, tasks, srv, now, showDeleteConfirm, nDeletes, nClears>>

\* Submit of the form: sendMessage up to its await.
SendMessage(content) ==
  /\ trim(content) # <<>>
  /\ ~loading
  /\ ~isLoadingHistory           \* the textarea and the button are disabled
  /\ nSends < MaxSends
  /\ nSends + nDeletes + nClears < MaxOps
  /\ tempUserMessage' = << tempMessage(content, now) >>
  /\ loading' = TRUE
  /\ send' = [phase |-> "issued", userMessage |-> << tempMessage(content, now) >>,
              chatId |-> IdOf(currentChat), cc |-> currentChat, nc |-> isNewChat,
              ms |-> messages, chat_id |-> NullId, response |-> <<>>]
  /\ nSends' = nSends + 1
  /\ last' = Last("SendMessage", TRUE, IdOf(currentChat), NullId, {}, {})
  /\ UNCHANGED <<chatVars, tasks, srv, now, showDeleteConfirm, nDeletes, nClears>>

\* POST /chat/query is processed by the remote store.
SendServerOk(reply) ==
  /\ send.phase = "issued"
  /\ \E n \in 1..MaxChats :
       /\ IF send.chatId = NullId
          THEN /\ srv[n].state = "free"
               /\ \A m \in 1..(n - 1) : srv[m].state # "free"
          ELSE send.chatId = SrvId(n) /\ srv[n].state = "live"
       /\ srv' = [srv EXCEPT ![n] = srvAppend(@, send.userMessage[1].content, reply, now)]
       /\ send' = [send EXCEPT !.phase = "ok", !.chat_id = SrvId(n), !.response = reply]
  /\ UNCHANGED <<chatVars, windowVars, tasks, now, showDeleteConfirm, counters, last>>

\* The request is lost or refused.
SendServerFail ==
  /\ send.phase = "issued"
  /\ send' = [send EXCEPT !.phase = "fail"]
  /\ UNCHANGED <<chatVars, windowVars, tasks, srv, now, showDeleteConfirm, counters, last>>

\* sendMessage without its finally block: setLoading(false) is not called.
SendResolve_noFinally ==
  /\ send.phase \in {"ok", "fail"}
  /\ LET user == persistentUserMessage(send.userMessage[1], now)
         r == IF send.phase = "ok"
              THEN handleNewMessage(<< user, assistantMessage(send.response, now) >>,
                                    send.chat_id, send.chat_id,
                                    send.cc, send.nc, send.ms, now)
              ELSE handleNewMessage(<< user, errorMessage(now) >>,
                                    NullId, errorChatId(send.cc, now),
                                    send.cc, send.nc, send.ms, now)
         changed == r.branch # "return"
         target == IF IdOf(send.cc) # NullId /\ ~send.nc THEN IdOf(send.cc)
                   ELSE IF send.phase = "ok" THEN send.chat_id
                   ELSE errorChatId(send.cc, now)
     IN  /\ chatHistory' = r.chatHistory
         /\ currentChat' = r.currentChat
         /\ messages' = effectMessages(changed, r.currentChat, r.messages, now)
         /\ isNewChat' = effectIsNewChat(changed, r.currentChat, r.isNewChat)
         /\ tempUserMessage' = effectTemp(changed, isLoadingHistory, isLoadingHistory, <<>>)
         /\ tasks' = noteAppended(tasks, target, r.added)
         /\ last' = Last(IF send.phase = "ok" THEN "SendResolveOk" ELSE "SendResolveFail",
                         send.phase = "ok", IdOf(send.cc), target,
                         Ids(r.added), {})
  /\ loading' = loading
  /\ send' = IdleSend
  /\ UNCHANGED <<isLoadingHistory, srv, now, showDeleteConfirm, counters>>

\* The rest of sendMessage: the try block after the await, or the catch
\* block, then finally; onNewMessage is the handleNewMessage captured at
\* submit.
SendResolve ==
  /\ send.phase \in {"ok", "fail"}
  /\ LET user == persistentUserMessage(send.userMessage[1], now)
         r == IF send.phase = "ok"
              THEN handleNewMessage(<< user, assistantMessage(send.response, now) >>,
                                    send.chat_id, send.chat_id,
                                    send.cc, send.nc, send.ms, now)
              ELSE handleNewMessage(<< user, errorMessage(now) >>,
                                    NullId, errorChatId(send.cc, now),
                                    send.cc, send.nc, send.ms, now)
         changed == r.branch # "return"
         target == IF IdOf(send.cc) # NullId /\ ~send.nc THEN IdOf(send.cc)
                   ELSE IF send.phase = "ok" THEN send.chat_id
                   ELSE errorChatId(send.cc, now)
     IN  /\ chatHistory' = r.chatHistory
         /\ currentChat' = r.currentChat
         /\ messages' = effectMessages(changed, r.currentChat, r.messages, now)
         /\ isNewChat' = effectIsNewChat(changed, r.currentChat, r.isNewChat)
         /\ tempUserMessage' = effectTemp(changed, isLoadingHistory, isLoadingHistory, <<>>)
         /\ tasks' = noteAppended(tasks, target, r.added)
         /\ last' = Last(IF send.phase = "ok" THEN "SendResolveOk" ELSE "SendResolveFail",
                         send.phase = "ok", IdOf(send.cc), target,
                         Ids(r.added), {})
  /\ loading' = FALSE
  /\ send' = IdleSend
  /\ UNCHANGED <<isLoadingHistory, srv, now, showDeleteConfirm, counters>>


\* -------------------------------------------------------- loadChatHistory
\* GET /chat/history is answered with the chats live at that moment.
ReloadServerOk(i) ==
  /\ tasks[i].kind = "reload" /\ tasks[i].phase = "issued"
  /\ tasks' = [tasks EXCEPT ![i].phase = "ok", ![i].data = srvHistory]
  /\ UNCHANGED <<chatVars, windowVars, send, srv, now, showDeleteConfirm, counters, last>>

ReloadServerFail(i) ==
  /\ tasks[i].kind = "reload" /\ tasks[i].phase = "issued"
  /\ tasks' = [tasks EXCEPT ![i].phase = "fail"]
  /\ UNCHANGED <<chatVars, windowVars, send, srv, now, showDeleteConfirm, counters, last>>

\* setChatHistory in the try block and in the catch block.
reloadedHistory(ok, data, t) == IF ok THEN cleanHistory(data, t) ELSE <<>>

\* if (currentChat) { updated = find(...); if (updated) setCurrentChat(updated) }
\* with currentChat the one captured when loadChatHistory was called:
\* <<>> when setCurrentChat is not called.
reloadedCurrent(ok, capturedId, cleaned) ==
  IF ok /\ capturedId # NullId THEN findChat(cleaned, capturedId) ELSE <<>>

\* loadChatHistory after its await, and what handleDeleteChat does after
\* `await loadChatHistory()` in its try block (thenClear).
ReloadResolve(i) ==
  /\ tasks[i].kind = "reload" /\ tasks[i].phase \in {"ok", "fail"}
  /\ LET ok == tasks[i].phase = "ok"
         cleaned == reloadedHistory(ok, tasks[i].data, now)
         updated == reloadedCurrent(ok, tasks[i].cc, cleaned)
         cc == IF tasks[i].thenClear THEN <<>>
               ELSE IF updated # <<>> THEN updated ELSE currentChat
         changed == updated # <<>> \/ (tasks[i].thenClear /\ currentChat # <<>>)
     IN  /\ chatHistory' = cleaned
         /\ currentChat' = cc
         /\ messages' = effectMessages(changed, cc,
                                       IF tasks[i].thenClear THEN <<>> ELSE messages, now)
         /\ isNewChat' = effectIsNewChat(changed, cc,
                                         IF tasks[i].thenClear THEN TRUE ELSE isNewChat)
         /\ isLoadingHistory' = FALSE
         /\ tempUserMessage' = effectTemp(changed, isLoadingHistory, FALSE, tempUserMessage)
         /\ last' = Last("ReloadResolve", ok, tasks[i].cc, tasks[i].target,
                         { tasks[i].data[j]._id : j \in 1..Len(tasks[i].data) },
                         tasks[i].appended)
  /\ tasks' = RemoveAt(tasks, i)
  /\ UNCHANGED <<loading, send, srv, now, showDeleteConfirm, counters>>

\* -------------------------------------------------------- handleDeleteChat
\* Click on a chat's delete button: handleDeleteChat up to its first await.
DeleteChat(i) ==
  /\ i \in 1..Len(chatHistory)
  /\ Len(tasks) < MaxTasks
  /\ nDeletes < MaxDeletes
  /\ nSends + nDeletes + nClears < MaxOps
  /\ tasks' = Append(tasks, Task("delete", "issued", IdOf(currentChat),
                                 chatHistory[i]._id, FALSE, <<>>))
  /\ nDeletes' = nDeletes + 1
  /\ last' = Last("DeleteChat", TRUE, IdOf(currentChat), chatHistory[i]._id, {}, {})
  /\ UNCHANGED <<chatVars, windowVars, send, srv, now, showDeleteConfirm, nSends, nClears>>

\* currentChat && currentChat._id === chatToDelete._id, on the captured state
deletedCurrent(capturedId, target) == capturedId # NullId /\ capturedId = target

\* DELETE /chat/{id} succeeded; handleDeleteChat calls loadChatHistory.
DeleteResolveOk(i) ==
  /\ tasks[i].kind = "delete"
  /\ tasks[i].target.k = "srv"
  /\ srv[tasks[i].target.n].state = "live"
  /\ srv' = [srv EXCEPT ![tasks[i].target.n].state = "gone"]
  /\ tasks' = [tasks EXCEPT ![i] =
                 Task("reload", "issued", tasks[i].cc, tasks[i].target,
                      deletedCurrent(tasks[i].cc, tasks[i].target), <<>>)]
  /\ isLoadingHistory' = TRUE
  /\ tempUserMessage' = effectTemp(FALSE, isLoadingHistory, TRUE, tempUserMessage)
  /\ last' = Last("DeleteResolveOk", TRUE, tasks[i].cc, tasks[i].target, {}, {})
  /\ UNCHANGED <<chatHistory, currentChat, messages, isNewChat, loading, send,
                 now, showDeleteConfirm, counters>>

\* handleDeleteChat with a catch block that only logs the error.
DeleteResolveFail_onlyLogs(i) ==
  /\ tasks[i].kind = "delete"
  /\ tasks' = RemoveAt(tasks, i)
  /\ last' = Last("DeleteResolveFail", FALSE, tasks[i].cc, tasks[i].target, {}, {})
  /\ UNCHANGED <<chatVars, windowVars, send, srv, now, showDeleteConfirm, counters>>

\* DELETE /chat/{id} failed; the catch block calls loadChatHistory.
DeleteResolveFail(i) ==
  /\ tasks[i].kind = "delete"
  /\ tasks' = [tasks EXCEPT ![i] =
                 Task("reload", "issued", tasks[i].cc, tasks[i].target, FALSE, <<>>)]
  /\ isLoadingHistory' = TRUE
  /\ tempUserMessage' = effectTemp(FALSE, isLoadingHistory, TRUE, tempUserMessage)
  /\ last' = Last("DeleteResolveFail", FALSE, tasks[i].cc, tasks[i].target, {}, {})
  /\ UNCHANGED <<chatHistory, currentChat, messages, isNewChat, loading, send,
                 srv, now, showDeleteConfirm, counters>>

\* ---------------------------------------------------------- handleClearAll
\* Click on "Clear all conversations", shown while the list holds chats:
\* the dialog opens.
OpenClearAll ==
  /\ Len(chatHistory) > 0
  /\ ~showDeleteConfirm
  /\ nClears < MaxClears
  /\ nSends + nDeletes + nClears < MaxOps
  /\ showDeleteConfirm' = TRUE
  /\ UNCHANGED <<chatVars, windowVars, send, tasks, srv, now, counters, last>>

\* Click on "Cancel" in the dialog.
CancelClearAll ==
  /\ showDeleteConfirm
  /\ showDeleteConfirm' = FALSE
  /\ UNCHANGED <<chatVars, windowVars, send, tasks, srv, now, counters, last>>

\* Click on "Clear All" in the dialog: confirmClearAll, and handleClearAll
\* up to its await.
ClearAll ==
  /\ showDeleteConfirm
  /\ Len(tasks) < MaxTasks
  /\ nClears < MaxClears
  /\ nSends + nDeletes + nClears < MaxOps
  /\ tasks' = Append(tasks, Task("clear", "issued", IdOf(currentChat), NullId, FALSE, <<>>))
  /\ nClears' = nClears + 1
  /\ showDeleteConfirm' = FALSE
  /\ last' = Last("ClearAll", TRUE, IdOf(currentChat), NullId, {}, {})
  /\ UNCHANGED <<chatVars, windowVars, send, srv, now, nSends, nDeletes>>

\* clearedState with a catch block that only logs the error.
clearedState_catchKeepsList(ok) ==
  IF ok
  THEN [chatHistory |-> <<>>, currentChat |-> <<>>, messages |-> <<>>, isNewChat |-> TRUE]
  ELSE [chatHistory |-> chatHistory, currentChat |-> currentChat, messages |-> messages,
        isNewChat |-> isNewChat]

\* The state handleClearAll installs after the await: [chatHistory,
\* currentChat, messages, isNewChat] in the try block (ok) and in the catch
\* block.
clearedState(ok) ==
  IF ok
  THEN [chatHistory |-> <<>>, currentChat |-> <<>>, messages |-> <<>>, isNewChat |-> TRUE]
  ELSE [chatHistory |-> <<>>, currentChat |-> currentChat, messages |-> messages,
        isNewChat |-> isNewChat]

ClearResolve(i, ok) ==
  /\ tasks[i].kind = "clear"
  /\ srv' = IF ok THEN [n \in 1..MaxChats |->
                          IF srv[n].state = "live" THEN [srv[n] EXCEPT !.state = "gone"]
                          ELSE srv[n]]
            ELSE srv
  /\ LET c == clearedState(ok)
         changed == c.currentChat # currentChat
     IN  /\ chatHistory' = c.chatHistory
         /\ currentChat' = c.currentChat
         /\ messages' = effectMessages(changed, c.currentChat, c.messages, now)
         /\ isNewChat' = effectIsNewChat(changed, c.currentChat, c.isNewChat)
         /\ tempUserMessage' = effectTemp(changed, isLoadingHistory, isLoadingHistory,
                                          tempUserMessage)
  /\ tasks' = RemoveAt(tasks, i)
  /\ last' = Last(IF ok THEN "ClearResolveOk" ELSE "ClearResolveFail", ok,
                  tasks[i].cc, NullId, {}, {})
  /\ UNCHANGED <<isLoadingHistory, loading, send, now, showDeleteConfirm, counters>>

\* -------------------------------------------- handleSelectChat, handleNewChat
selectable(msg) == msg.content # <<>> /\ ~includesMarker(msg.content)

cleanChat(chat) == [chat EXCEPT !.messages = SelectSeq(@, selectable)]

\* Click on a chat of the sidebar.
SelectChat(i) ==
  /\ i \in 1..Len(chatHistory)
  /\ IF isLoadingHistory
     THEN UNCHANGED <<currentChat, messages, isNewChat, tempUserMessage>>
     ELSE /\ currentChat' = << cleanChat(chatHistory[i]) >>
          /\ messages' = effectMessages(TRUE, currentChat', messages, now)
          /\ isNewChat' = effectIsNewChat(TRUE, currentChat', FALSE)
          /\ tempUserMessage' = effectTemp(TRUE, isLoadingHistory, isLoadingHistory,
                                           tempUserMessage)
  /\ last' = Last("SelectChat", ~isLoadingHistory, NullId, chatHistory[i]._id, {}, {})
  /\ UNCHANGED <<chatHistory, isLoadingHistory, loading, send, tasks, srv,
                 now, showDeleteConfirm, counters>>

\* Click on "new chat".
NewChat ==
  /\ currentChat' = <<>>
  /\ messages' = <<>>
  /\ isNewChat' = TRUE
  /\ tempUserMessage' = effectTemp(currentChat # <<>>, isLoadingHistory, isLoadingHistory,
                                   tempUserMessage)
  /\ last' = Last("NewChat", TRUE, NullId, NullId, {}, {})
  /\ UNCHANGED <<chatHistory, isLoadingHistory, loading, send, tasks, srv,
                 now, showDeleteConfirm, counters>>

\* Date.now() advances.
Tick ==
  /\ now < MaxClock
  /\ now' = now + 1
  /\ UNCHANGED <<chatVars, windowVars, send, tasks, srv, counters,
                 showDeleteConfirm, last>>

Next ==
  \/ \E c \in UserInputs : SendMessage(c)
  \/ \E r \in Replies : SendServerOk(r)
  \/ SendServerFail
  \/ SendResolve
  \/ \E i \in 1..Len(tasks) : ReloadServerOk(i)
  \/ \E i \in 1..Len(tasks) : ReloadServerFail(i)
  \/ \E i \in 1..Len(tasks) : ReloadResolve(i)
  \/ \E i \in 1..Len(chatHistory) : DeleteChat(i)
  \/ \E i \in 1..Len(tasks) : DeleteResolveOk(i)
  \/ \E i \in 1..Len(tasks) : DeleteResolveFail(i)
  \/ OpenClearAll
  \/ CancelClearAll
  \/ ClearAll
  \/ \E i \in 1..Len(tasks), ok \in BOOLEAN : ClearResolve(i, ok)
  \/ \E i \in 1..Len(chatHistory) : SelectChat(i)
  \/ NewChat
  \/ Tick

Spec == Init /\ [][Next]_vars

\* ------------------------------------------------ raw data of the store
\* The message records GET /chat/history may return: with or without an
\* id, a role or a content, the content with the marker once, twice or not
\* at all, in any order of timestamps.
RawIds == { NoMsgId } \cup { MsgId(p, 1, "user") : p \in 0..MaxTempPrefix }
RawRoles == { "user", "" }
RawContents == { <<>>, <<"a">>, <<"M">>, <<"a", "M", "M">> }

RawMsgs ==
  { Msg(id, role, content, t, "undefined") :
      id \in RawIds, role \in RawRoles, content \in RawContents, t \in 1..MaxClock }

RawLists == UNION { [1..n -> RawMsgs] : n \in 0..MaxRawLen }

\* The client mounted on a store that holds one chat with any raw list.
RawInit ==
  /\ InitLocal
  /\ srv \in { storeWith(L) : L \in RawLists }

\* What the client does with the history it loads: no send, delete or
\* clear-all is issued.
RawNext ==
  \/ \E i \in 1..Len(tasks) : ReloadServerOk(i)
  \/ \E i \in 1..Len(tasks) : ReloadServerFail(i)
  \/ \E i \in 1..Len(tasks) : ReloadResolve(i)
  \/ \E i \in 1..Len(chatHistory) : SelectChat(i)
  \/ NewChat
  \/ Tick

RawSpec == RawInit /\ [][RawNext]_vars

\* --------------------------------------------- stored chats of past days
\* A chat the remote store holds since day d, or no chat.
oldSlot(d) ==
  IF d = 0 THEN FreeSlot
  ELSE [state |-> "live",
        messages |-> << SrvMsg("user", <<"a">>, d), SrvMsg("assistant", <<"b">>, d) >>,
        created_at |-> d, updated_at |-> d]

\* The days before the mount, and 0 for an unused chat id.
OldStamps == { 0 } \cup { 0 - d : d \in 1..OldDays }

\* The client mounted on a store whose chats were last updated on any of
\* the past days.
HistoryInit ==
  /\ InitLocal
  /\ srv \in { [n \in 1..MaxChats |-> oldSlot(days[n])] : days \in [1..MaxChats -> OldStamps] }

HistorySpec == HistoryInit /\ [][RawNext]_vars

\* What the client does with stored chats of past days when the user also
\* deletes chats: no send and no clear-all is issued.
DeleteNext ==
  \/ RawNext
  \/ \E i \in 1..Len(chatHistory) : DeleteChat(i)
  \/ \E i \in 1..Len(tasks) : DeleteResolveOk(i)
  \/ \E i \in 1..Len(tasks) : DeleteResolveFail(i)

\* The client mounted on a store that holds MaxChats chats, chat n last
\* updated n days before the mount.
DeleteInit ==
  /\ InitLocal
  /\ srv = [n \in 1..MaxChats |-> oldSlot(0 - n)]

DeleteSpec == DeleteInit /\ [][DeleteNext]_vars


\* ------------------------------------------------- remote calls that end
\* The sends, the deletes and the reloads of the client, with the user
\* selecting chats and starting new ones meanwhile.
LiveNext ==
  \/ \E c \in UserInputs : SendMessage(c)
  \/ \E r \in Replies : SendServerOk(r)
  \/ SendServerFail
  \/ SendResolve
  \/ \E i \in 1..Len(tasks) : ReloadServerOk(i)
  \/ \E i \in 1..Len(tasks) : ReloadServerFail(i)
  \/ \E i \in 1..Len(tasks) : ReloadResolve(i)
  \/ \E i \in 1..Len(chatHistory) : DeleteChat(i)
  \/ \E i \in 1..Len(tasks) : DeleteResolveOk(i)
  \/ \E i \in 1..Len(tasks) : DeleteResolveFail(i)
  \/ \E i \in 1..Len(chatHistory) : SelectChat(i)
  \/ NewChat

\* A remote call resolves or rejects, or the continuation of a settled
\* promise runs.
Settles ==
  \/ \E r \in Replies : SendServerOk(r)
  \/ SendServerFail
  \/ SendResolve
  \/ \E i \in 1..Len(tasks) : ReloadServerOk(i)
  \/ \E i \in 1..Len(tasks) : ReloadServerFail(i)
  \/ \E i \in 1..Len(tasks) : ReloadResolve(i)
  \/ \E i \in 1..Len(tasks) : DeleteResolveOk(i)
  \/ \E i \in 1..Len(tasks) : DeleteResolveFail(i)

\* Every remote call eventually resolves or rejects and its continuation
\* eventually runs; nothing obliges the user to act.
LiveSpec == Init /\ [][LiveNext]_vars /\ WF_vars(Settles)

\* ================================================================ claims
SendResolved == last.op \in {"SendResolveOk", "SendResolveFail"}
ClearResolved == last.op \in {"ClearResolveOk", "ClearResolveFail"}
ReloadResolvedOk == last.op = "ReloadResolve" /\ last.ok

Holds(msgs, role, content) ==
  \E j \in 1..Len(msgs) : msgs[j].role = role /\ msgs[j].content = content

\* C1: when a reload resolves, every message a send completion stored in a
\* session while that reload was in flight is still in that session's
\* stored list, and in the visible list when the session is the active one.
C1_ReloadKeepsAppended ==
  ReloadResolvedOk =>
    \A a \in last.appended :
      /\ \A i \in 1..Len(chatHistory) :
           chatHistory[i]._id = a.chat => Holds(chatHistory[i].messages, a.role, a.content)
      /\ activeSessionId = a.chat => Holds(visibleMessages, a.role, a.content)

\* C2: the step that resolves a send leaves the messages it stores in the
\* stored list of the session captured when the send was issued (the
\* session the remote store or the client names for a send on a new
\* session), and changes the stored list of no other session.
C2_ResultGoesToOrigin ==
  [][ (send.phase \in {"ok", "fail"} /\ send'.phase = "idle" /\ last'.ids # {}) =>
        /\ \E i \in 1..Len(chatHistory') :
             /\ chatHistory'[i]._id = last'.target
             /\ last'.ids \subseteq Ids(chatHistory'[i].messages)
        /\ \A i \in 1..Len(chatHistory') :
             chatHistory'[i]._id # last'.target =>
               \E j \in 1..Len(chatHistory) : chatHistory[j] = chatHistory'[i] ]_vars

\* C3: the step that resolves a send whose origin session is not the
\* active one leaves the active session, the composing-new flag and the
\* displayed messages as they were.
C3_InactiveOriginFrame ==
  [][ (send.phase \in {"ok", "fail"} /\ send'.phase = "idle"
       /\ IdOf(send.cc) # activeSessionId) =>
        /\ activeSessionId' = activeSessionId
        /\ isNewChat' = isNewChat
        /\ messages' = messages ]_vars

\* C4: no stored message list holds two messages with the same id.
NoDuplicateIds(msgs) ==
  \A i, j \in 1..Len(msgs) : i # j => msgs[i].id # msgs[j].id

C4_NoDuplicateIds ==
  \A i \in 1..Len(chatHistory) : NoDuplicateIds(chatHistory[i].messages)

\* C5: a reload that resolves while session S is active and returns S
\* leaves S the active session.
C5_ActivePreserved ==
  (ReloadResolvedOk /\ last.before # NullId /\ last.before \in last.ids) =>
    activeSessionId = last.before

\* C6: a reload that resolves without the active session in its data
\* leaves no active session, the composing-new flag set and no messages.
C6_ActiveResetWhenGone ==
  (ReloadResolvedOk /\ last.before # NullId /\ last.before \notin last.ids) =>
    /\ currentChat = <<>>
    /\ isNewChat
    /\ messages = <<>>

\* C7: from the click that deletes the active session on, before the
\* remote delete resolves, there is no active session and the
\* composing-new flag is set.
C7_DeleteClearsAtOnce ==
  (last.op = "DeleteChat" /\ last.target = last.before) =>
    /\ currentChat = <<>>
    /\ isNewChat

\* C8: once handleClearAll has finished, the session list is empty,
\* whether the remote call succeeded or failed.
C8_ClearEmptiesList == ClearResolved => chatHistory = <<>>

\* clearAllChats failed while the list held sessions, and handleClearAll
\* has finished.
C8_Witness ==
  /\ last.op = "ClearResolveFail"
  /\ last.sessions > 0
  /\ \E n \in 1..MaxChats : srv[n].state = "live"

\* C9: once handleClearAll has finished, whether the remote call succeeded
\* or failed, there is no active session, the composing-new flag is set
\* and no message is displayed.
C9_ClearIsFull ==
  ClearResolved =>
    /\ currentChat = <<>>
    /\ isNewChat
    /\ messages = <<>>

\* C10: a send on a new session displays exactly the temporary user
\* message until it resolves, and once it has succeeded exactly the
\* finalized user message followed by the assistant's reply.
C10_NewSessionSend ==
  /\ (last.op = "SendMessage" /\ last.origin = NullId) =>
       /\ Len(visibleMessages) = 1
       /\ visibleMessages[1].role = "user"
       /\ visibleMessages[1].isTemp = "true"
  /\ (last.op = "SendResolveOk" /\ last.origin = NullId) =>
       /\ Len(visibleMessages) = 2
       /\ visibleMessages[1].role = "user"
       /\ visibleMessages[2].role = "assistant"
       /\ \A j \in 1..2 : /\ visibleMessages[j].isTemp # "true"
                          /\ ~startsWithTemp(visibleMessages[j].id)

\* C11: the step that resolves a rejected send leaves no temporary message,
\* and the visible list is the one shown before, without the temporary
\* message, followed by exactly the finalized user message and one
\* assistant message with the fixed error text; the send is over (nothing
\* is issued again).
C11_FailedSendShowsError ==
  [][ (send.phase = "fail" /\ send'.phase = "idle") =>
        LET shown == SelectSeq(messages, displayVisible)
            n == Len(shown)
        IN  /\ tempUserMessage' = <<>>
            /\ send' = IdleSend
            /\ Len(visibleMessages') = n + 2
            /\ SubSeq(visibleMessages', 1, n) = shown
            /\ visibleMessages'[n + 1].role = "user"
            /\ visibleMessages'[n + 1].content = send.userMessage[1].content
            /\ visibleMessages'[n + 1].isTemp # "true"
            /\ ~startsWithTemp(visibleMessages'[n + 1].id)
            /\ visibleMessages'[n + 2].role = "assistant"
            /\ visibleMessages'[n + 2].content = ErrorText ]_vars

\* C12: the visible list never holds more than one temporary message (one
\* with isTemp true or an id that starts with temp-).
IsTemporary(msg) == msg.isTemp = "true" \/ startsWithTemp(msg.id)

TempCount(msgs) == Cardinality({ j \in 1..Len(msgs) : IsTemporary(msgs[j]) })

C12_AtMostOneTemp == TempCount(visibleMessages) <= 1

\* A temporary message is shown after the stored messages of the active
\* session while a reload is in flight.
C12_Witness ==
  /\ TempCount(visibleMessages) = 1
  /\ Len(visibleMessages) >= 3
  /\ isLoadingHistory
  /\ \E i \in 1..Len(tasks) : tasks[i].kind = "reload"

Ascending(msgs) ==
  \A i \in 1..(Len(msgs) - 1) : msgs[i].timestamp <= msgs[i + 1].timestamp

C14_StoredAscending ==
  \A i \in 1..Len(chatHistory) : Ascending(chatHistory[i].messages)

\* C15: cleaning is idempotent: a stored list, which is cleanMessages of
\* the raw list the remote store returned, is left as it is by
\* cleanMessages.
C15_CleanIdempotent ==
  \A i \in 1..Len(chatHistory) :
    cleanMessages(chatHistory[i].messages, now) = chatHistory[i].messages

\* C16: while a remote send is in flight the loading flag is set, so a
\* submit returns before it issues a call and the call in flight is the
\* only one; a temporary message exists only for that call, and at most
\* one.
C16_OneSendInFlight ==
  /\ send.phase # "idle" => loading
  /\ tempUserMessage # <<>> => send.phase # "idle"
  /\ Len(tempUserMessage) <= 1

\* A send is in flight and a submit is refused by the loading flag alone:
\* the input is not disabled by a reload and send attempts are left.
C16_Witness ==
  /\ send.phase = "issued"
  /\ loading
  /\ ~isLoadingHistory
  /\ nSends < MaxSends
  /\ nSends + nDeletes + nClears < MaxOps

\* C17: a click on a chat of the sidebar while at least one history
\* reload is in flight changes nothing: not the active session, the
\* composing-new flag, the session list or the visible messages.
ReloadInFlight == \E i \in 1..Len(tasks) : tasks[i].kind = "reload"

C17_SelectNoOpWhileReloading ==
  [][ (last' # last /\ last'.op = "SelectChat" /\ ReloadInFlight) =>
        /\ currentChat' = currentChat
        /\ isNewChat' = isNewChat
        /\ chatHistory' = chatHistory
        /\ visibleMessages' = visibleMessages ]_vars

\* C18: the step that ends a remote delete, with success or with failure,
\* issues exactly one history reload, and a reload is issued by no other
\* step.
NumKind(ts, kind) == Cardinality({ i \in 1..Len(ts) : ts[i].kind = kind })

NumIssued(ts) ==
  Cardinality({ i \in 1..Len(ts) : ts[i].kind = "reload" /\ ts[i].phase = "issued" })

C18_DeleteThenOneReload ==
  [][ /\ NumKind(tasks', "delete") < NumKind(tasks, "delete") =>
           /\ NumKind(tasks', "delete") = NumKind(tasks, "delete") - 1
           /\ NumKind(tasks', "reload") = NumKind(tasks, "reload") + 1
           /\ NumIssued(tasks') = NumIssued(tasks) + 1
      /\ NumKind(tasks', "reload") > NumKind(tasks, "reload") =>
           NumKind(tasks', "delete") = NumKind(tasks, "delete") - 1 ]_vars

\* The remote delete has failed and the reload that follows it is issued.
C18_Witness ==
  /\ last.op = "DeleteResolveFail"
  /\ \E i \in 1..Len(tasks) :
       /\ tasks[i].kind = "reload"
       /\ tasks[i].phase = "issued"
       /\ tasks[i].target = last.target
  /\ NumKind(tasks, "delete") = 0

C20_FailedReloadKeepsState ==
  [][ (last' # last /\ last'.op = "ReloadResolve" /\ ~last'.ok) =>
        /\ chatHistory' = chatHistory
        /\ activeSessionId' = activeSessionId
        /\ visibleMessages' = visibleMessages
        /\ Len(tasks') = Len(tasks) - 1 ]_vars

\* C21: the step that resolves a successful send stores its messages in
\* the session whose id is the one the remote store returned when no
\* session was active at submit, and the id of the session active at
\* submit otherwise; a send on a new session adds exactly one session, and
\* it is the only one with the returned id.
C21_SuccessGoesToResolvedId ==
  [][ (send.phase = "ok" /\ send'.phase = "idle" /\ last'.ids # {}) =>
        LET resolvedId == IF send.chatId = NullId THEN send.chat_id ELSE send.chatId
            holders == { i \in 1..Len(chatHistory') : chatHistory'[i]._id = resolvedId }
        IN  /\ \E i \in holders : last'.ids \subseteq Ids(chatHistory'[i].messages)
            /\ send.chatId = NullId =>
                 /\ Cardinality(holders) = 1
                 /\ Len(chatHistory') = Len(chatHistory) + 1 ]_vars

\* C22: after the step that resolves a send for target session T, the
\* session list holds a session with id T, created if it was absent, whose
\* stored messages include the ones the send stored and whose updated_at
\* is the time of the step and not before its created_at.
C22_TargetHoldsAppended ==
  [][ (send.phase \in {"ok", "fail"} /\ send'.phase = "idle" /\ last'.ids # {}) =>
        \E i \in 1..Len(chatHistory') :
          /\ chatHistory'[i]._id = last'.target
          /\ last'.ids \subseteq Ids(chatHistory'[i].messages)
          /\ chatHistory'[i].updated_at = now
          /\ chatHistory'[i].updated_at >= chatHistory'[i].created_at ]_vars

\* C23: the chats are shown in the sidebar in descending order of
\* updated_at (created_at when it is missing).
Descending(chats) ==
  \A i \in 1..(Len(chats) - 1) : sortKey(chats[i]) >= sortKey(chats[i + 1])

C23_SidebarDescending == Descending(sidebarChats(chatHistory, now))

\* C24: the session id a sendMessage request in flight carries is null or
\* an id the remote store assigned; an id invented by the client is never
\* sent.
C24_SentIdIsNullOrStoreAssigned ==
  send.phase # "idle" => send.chatId.k \in {"null", "srv"}

\* The stored message list of the session with this id, empty when the
\* list holds no such session.
StoredOf(hist, id) ==
  LET c == findChat(hist, id) IN IF c = <<>> THEN <<>> ELSE c[1].messages

\* C25: the step that resolves a send, successful or failed, appends
\* exactly two messages to the stored list of its target session: the user
\* message with the content that was submitted, followed by one assistant
\* message with the reply or the error text.
C25_ResolveAppendsPair ==
  [][ (send.phase \in {"ok", "fail"} /\ send'.phase = "idle") =>
        LET before == StoredOf(chatHistory, last'.target)
            after == StoredOf(chatHistory', last'.target)
            n == Len(before)
        IN  /\ Len(after) = n + 2
            /\ SubSeq(after, 1, n) = before
            /\ after[n + 1].role = "user"
            /\ after[n + 1].content = send.userMessage[1].content
            /\ after[n + 2].role = "assistant"
            /\ after[n + 2].content =
                 (IF send.phase = "ok" THEN send.response ELSE ErrorText) ]_vars

\* The roles and contents of a message list, in order.
View(msgs) == [i \in 1..Len(msgs) |-> <<msgs[i].role, msgs[i].content>>]

\* C26: the visible message list is the cleaned stored list of the active
\* session as the session list holds it, followed by at most one temporary
\* message; without an active session it is at most that one temporary
\* message.
C26_VisibleIsCleanedStored ==
  LET cleaned == cleanMessages(StoredOf(chatHistory, activeSessionId), now)
  IN  \/ View(visibleMessages) = View(cleaned)
      \/ /\ visibleMessages # <<>>
         /\ IsTemporary(visibleMessages[Len(visibleMessages)])
         /\ View(SubSeq(visibleMessages, 1, Len(visibleMessages) - 1)) = View(cleaned)

\* C27: no two sessions of the session list have the same id.
C27_SessionIdsDistinct ==
  \A i, j \in 1..Len(chatHistory) : chatHistory[i]._id = chatHistory[j]._id => i = j

\* C28: when a session is active, the session list holds a session with
\* its id.
C28_ActiveSessionInList ==
  activeSessionId # NullId => findChat(chatHistory, activeSessionId) # <<>>

\* C29: the step in which a history reload resolves leaves the active
\* session as it was or leaves no session active; it never makes another
\* session the active one.
C29_ReloadKeepsOrResetsActive ==
  [][ (last'.op = "ReloadResolve" /\ Len(tasks') = Len(tasks) - 1) =>
        \/ activeSessionId' = activeSessionId
        \/ activeSessionId' = NullId ]_vars

\* C30: isLoadingHistory is true exactly while at least one history reload
\* is in flight, also when reloads overlap.
C30_FlagIffReloadInFlight ==
  isLoadingHistory <=> ReloadInFlight

\* C31: when the reload that follows the deletion of a session resolves,
\* and the deleted session was not the active one, neither when the delete
\* button was clicked nor now, and the active session is in the reloaded
\* data, the active session stays the active one.
C31_DeleteOtherKeepsActive ==
  [][ ( /\ last'.op = "ReloadResolve" /\ Len(tasks') = Len(tasks) - 1
        /\ last'.ok
        /\ last'.target # NullId
        /\ last'.target \notin last'.ids
        /\ last'.origin # last'.target
        /\ activeSessionId # last'.target
        /\ activeSessionId \in last'.ids ) =>
        activeSessionId' = activeSessionId ]_vars

\* C32: isNewChat (the composing-new flag) is true exactly when no session
\* is active.
C32_ComposingNewIffNoActive ==
  isNewChat <=> (activeSessionId = NullId)

\* A reload that resolved after "new chat" made its captured chat the
\* active one again; only the effect on currentChat resets the flag.
C32_Witness ==
  /\ last.op = "ReloadResolve"
  /\ last.before = NullId
  /\ activeSessionId # NullId
  /\ ~isNewChat

\* No send and no reload is under way: the sending flag and the
\* reload-in-flight flag are cleared and no temporary message is shown.
Idle ==
  /\ send.phase = "idle" /\ ~loading /\ tempUserMessage = <<>>
  /\ ~ReloadInFlight /\ ~isLoadingHistory

\* C33: when every remote call eventually resolves or rejects, a started
\* send or reload is always followed by a state in which the sending flag
\* and the reload-in-flight flag are cleared, no temporary message is
\* outstanding and no send or reload is in flight.
C33_ReturnsToIdle == (~Idle) ~> Idle

\* A send was started and has ended, and the reload that followed a delete
\* has just resolved: no call is outstanding.
C33_Witness ==
  /\ Idle /\ tasks = <<>>
  /\ nSends > 0 /\ nDeletes > 0
  /\ last.op = "ReloadResolve"

\* C34: every message of a stored list, which is the output of
\* cleanMessages for the raw list the remote store returned, has a role and
\* a content that is not empty after trimming.
C34_CleanedHaveRoleAndContent ==
  \A i \in 1..Len(chatHistory) :
    \A j \in 1..Len(chatHistory[i].messages) :
      /\ chatHistory[i].messages[j].role # ""
      /\ trim(chatHistory[i].messages[j].content) # <<>>

\* C35: no message stored in the message list of a session is temporary.
C35_NoStoredTemp ==
  \A i \in 1..Len(chatHistory) :
    \A j \in 1..Len(chatHistory[i].messages) :
      ~IsTemporary(chatHistory[i].messages[j])

\* A send has resolved and a session holds the messages it stored, the
\* finalized copy of the temporary user message among them.
C35_Witness ==
  /\ SendResolved
  /\ \E id \in last.ids : id.k = "user"
  /\ \E i \in 1..Len(chatHistory) : last.ids \subseteq Ids(chatHistory[i].messages)

\* C36: no content of a stored message, cleaned by cleanMessages or by
\* handleNewMessage, contains the marker '(sending...)'.
C36_NoMarkerStored ==
  \A i \in 1..Len(chatHistory) :
    \A j \in 1..Len(chatHistory[i].messages) :
      ~includesMarker(chatHistory[i].messages[j].content)

====
